---- MODULE Spec2Model ----
(***************************************************************************)
(* Quarterly labour-market data pipeline: the quarter parser               *)
(* (src/src/utils/helpers.py), the DataLoader (src/src/data/data_loader.py),*)
(* the DataValidator (src/src/data/data_validator.py) and the              *)
(* DataPreprocessor (src/src/data/data_preprocessor.py).                   *)
(*                                                                         *)
(* Conventions.                                                            *)
(*   - A Python string that the code takes apart (a quarter label) is a    *)
(*     sequence of one-character strings.                                  *)
(*   - An optional value (None or an object) is a sequence of length 0 or 1.*)
(*   - A float cell is a record [k, n, d]: a rational n/d, NaN, or +-inf.  *)
(*   - A DataFrame is [columns |-> <<names>>, rows |-> <<row>>], a row a    *)
(*     function from column name to cell.                                  *)
(***************************************************************************)
EXTENDS Integers, Sequences, FiniteSets, TLC

VARIABLES
    label, pq, qd,                       \* quarter parser: input, parse_quarter result, quarter_to_date result
    data, metadata, ret, disk,           \* DataLoader: self.data, self.metadata, last call's outcome, files written
    vdata, validation_results, runs, report,  \* DataValidator: self.data, self.validation_results, checks run, last report
    heap, out, constructed               \* DataPreprocessor: frames by reference, last returned reference, snapshot at construction

vars == <<label, pq, qd, data, metadata, ret, disk,
          vdata, validation_results, runs, report, heap, out, constructed>>

parserVars == <<label, pq, qd>>
loaderVars == <<data, metadata, ret, disk>>
validatorVars == <<vdata, validation_results, runs, report>>
preprocessorVars == <<heap, out, constructed>>

None == <<>>
Some(x) == <<x>>

Range(s) == {s[i] : i \in DOMAIN s}

(***************************************************************************)
(* Float cells.                                                            *)
(***************************************************************************)
Abs(n) == IF n < 0 THEN -n ELSE n

RECURSIVE Gcd(_, _)
Gcd(a, b) == IF b = 0 THEN a ELSE Gcd(b, a % b)

NaN == [k |-> "nan", n |-> 0, d |-> 1]
PosInf == [k |-> "inf", n |-> 1, d |-> 0]
NegInf == [k |-> "inf", n |-> -1, d |-> 0]

\* n/d in lowest terms with a positive denominator (d # 0)
Rat(n, d) ==
    LET g == Gcd(Abs(n), Abs(d))
        s == IF d < 0 THEN -1 ELSE 1
    IN [k |-> "num", n |-> (s * n) \div g, d |-> (s * d) \div g]

Num(n) == [k |-> "num", n |-> n, d |-> 1]

IsNum(x) == x.k = "num"
IsNaN(x) == x.k = "nan"

\* IEEE arithmetic on cells, exact on the finite values
FAdd(x, y) ==
    IF IsNaN(x) \/ IsNaN(y) THEN NaN
    ELSE IF IsNum(x) /\ IsNum(y) THEN Rat(x.n * y.d + y.n * x.d, x.d * y.d)
    ELSE IF IsNum(x) THEN y
    ELSE IF IsNum(y) THEN x
    ELSE IF x.n = y.n THEN x ELSE NaN

FNeg(x) == IF IsNum(x) THEN Rat(-x.n, x.d) ELSE IF IsNaN(x) THEN NaN ELSE [x EXCEPT !.n = -x.n]

FSub(x, y) == FAdd(x, FNeg(y))

Sign(n) == IF n > 0 THEN 1 ELSE IF n < 0 THEN -1 ELSE 0

FMul(x, y) ==
    IF IsNaN(x) \/ IsNaN(y) THEN NaN
    ELSE IF IsNum(x) /\ IsNum(y) THEN Rat(x.n * y.n, x.d * y.d)
    ELSE IF Sign(x.n) * Sign(y.n) = 0 THEN NaN
    ELSE IF Sign(x.n) * Sign(y.n) > 0 THEN PosInf ELSE NegInf

\* numpy float division: x/0 is +-inf, 0/0 is NaN, no exception
FDiv(x, y) ==
    IF IsNaN(x) \/ IsNaN(y) THEN NaN
    ELSE IF IsNum(x) /\ IsNum(y) THEN
        IF y.n # 0 THEN Rat(x.n * y.d, x.d * y.n)
        ELSE IF x.n = 0 THEN NaN
        ELSE IF x.n > 0 THEN PosInf ELSE NegInf
    ELSE IF IsNum(y) THEN (IF (Sign(x.n) >= 0) = (y.n >= 0) THEN PosInf ELSE NegInf)
    ELSE IF IsNum(x) THEN Num(0)
    ELSE NaN

\* x < y; every comparison with NaN is false
FLess(x, y) ==
    IF IsNaN(x) \/ IsNaN(y) THEN FALSE
    ELSE IF IsNum(x) /\ IsNum(y) THEN x.n * y.d < y.n * x.d
    ELSE IF IsNum(x) THEN y.n > 0
    ELSE IF IsNum(y) THEN x.n < 0
    ELSE x.n < y.n

FLeq(x, y) == ~IsNaN(x) /\ ~IsNaN(y) /\ ~FLess(y, x)

FAbs(x) == IF IsNum(x) THEN Rat(Abs(x.n), x.d) ELSE IF IsNaN(x) THEN NaN ELSE PosInf

(***************************************************************************)
(* Quarter parser: helpers.parse_quarter, helpers.quarter_to_date.         *)
(***************************************************************************)
Digits == {"0", "1", "2", "3", "4", "5", "6", "7", "8", "9"}

DigitVal(c) ==
    CASE c = "0" -> 0 [] c = "1" -> 1 [] c = "2" -> 2 [] c = "3" -> 3 [] c = "4" -> 4
      [] c = "5" -> 5 [] c = "6" -> 6 [] c = "7" -> 7 [] c = "8" -> 8 [] c = "9" -> 9

IsSpace(c) == c \in {" ", "\t"}

\* str.strip(): leading and trailing whitespace removed
RECURSIVE LStrip(_)
LStrip(s) == IF s # <<>> /\ IsSpace(s[1]) THEN LStrip(Tail(s)) ELSE s

RECURSIVE RStrip(_)
RStrip(s) == IF s # <<>> /\ IsSpace(s[Len(s)]) THEN RStrip(SubSeq(s, 1, Len(s) - 1)) ELSE s

Strip(s) == RStrip(LStrip(s))

\* str.split() without a separator: the maximal runs of non-whitespace, in order
RECURSIVE SplitFrom(_, _, _, _)
SplitFrom(s, i, cur, acc) ==
    IF i > Len(s) THEN (IF cur = <<>> THEN acc ELSE Append(acc, cur))
    ELSE IF IsSpace(s[i]) THEN SplitFrom(s, i + 1, <<>>, IF cur = <<>> THEN acc ELSE Append(acc, cur))
    ELSE SplitFrom(s, i + 1, Append(cur, s[i]), acc)

Split(s) == SplitFrom(s, 1, <<>>, <<>>)

\* str.replace('Q', ''): every occurrence of Q removed, wherever it stands
ReplaceQ(tok) == SelectSeq(tok, LAMBDA c : c # "Q")

RECURSIVE DigitsValue(_, _)
DigitsValue(s, acc) ==
    IF s = <<>> THEN acc
    ELSE IF s[1] = "_" THEN DigitsValue(Tail(s), acc)
    ELSE DigitsValue(Tail(s), 10 * acc + DigitVal(s[1]))

\* int(str): optional sign, then digits, single underscores allowed between digits
PyInt(tok) ==
    LET signed == tok # <<>> /\ tok[1] \in {"+", "-"}
        body == IF signed THEN Tail(tok) ELSE tok
        valid == /\ body # <<>>
                 /\ body[1] \in Digits
                 /\ body[Len(body)] \in Digits
                 /\ \A i \in DOMAIN body : body[i] \in Digits \cup {"_"}
                 /\ \A i \in 1..(Len(body) - 1) : ~(body[i] = "_" /\ body[i + 1] = "_")
        mag == DigitsValue(body, 0)
    IN IF valid THEN [ok |-> TRUE, v |-> IF signed /\ tok[1] = "-" THEN -mag ELSE mag]
       ELSE [ok |-> FALSE, v |-> 0]

FormatError == "ValueError: Invalid quarter format"

Failed(e) == [ok |-> FALSE, year |-> 0, quarter |-> 0, error |-> e]

\* parts[2:] are never looked at; a bare except turns IndexError and int()'s
\* ValueError into the format error
parse_quarter(quarter_str) ==
    LET parts == Split(Strip(quarter_str))
    IN IF Len(parts) < 2 THEN Failed(FormatError)
       ELSE LET year == PyInt(parts[1])
                quarter == PyInt(ReplaceQ(parts[2]))
            IN IF year.ok /\ quarter.ok
               THEN [ok |-> TRUE, year |-> year.v, quarter |-> quarter.v, error |-> ""]
               ELSE Failed(FormatError)

NoDate == [year |-> 0, month |-> 0, day |-> 0]

\* The years datetime64[ns] holds whole; outside them pd.Timestamp(year=...)
\* raises OutOfBoundsDatetime or not, depending on the pandas version.
InNanosecondRange(year) == 1678 <= year /\ year <= 2261

\* The possible outcomes of quarter_to_date: parse_quarter's error passes through;
\* pd.Timestamp raises ValueError for a month outside 1..12 or a year outside 1..9999.
quarter_to_date(quarter_str) ==
    LET p == parse_quarter(quarter_str)
        month == (p.quarter - 1) * 3 + 1
        date == [ok |-> TRUE, date |-> [year |-> p.year, month |-> month, day |-> 1], error |-> ""]
        bad(e) == [ok |-> FALSE, date |-> NoDate, error |-> e]
    IN IF ~p.ok THEN {bad(p.error)}
       ELSE IF p.year < 1 \/ p.year > 9999 THEN {bad("ValueError: year is out of range")}
       ELSE IF month < 1 \/ month > 12 THEN {bad("ValueError: month must be in 1..12")}
       ELSE IF InNanosecondRange(p.year) THEN {date}
       ELSE {date, bad("OutOfBoundsDatetime")}

\* Calendar: the proleptic Gregorian ordinal of a date, for ordering and differences
IsLeap(y) == (y % 4 = 0 /\ y % 100 # 0) \/ y % 400 = 0

DaysInMonth(y, m) ==
    IF m = 2 THEN (IF IsLeap(y) THEN 29 ELSE 28)
    ELSE IF m \in {4, 6, 9, 11} THEN 30 ELSE 31

RECURSIVE DaysBeforeMonth(_, _)
DaysBeforeMonth(y, m) == IF m <= 1 THEN 0 ELSE DaysBeforeMonth(y, m - 1) + DaysInMonth(y, m - 1)

DaysBeforeYear(y) == 365 * (y - 1) + ((y - 1) \div 4) - ((y - 1) \div 100) + ((y - 1) \div 400)

Ordinal(date) == DaysBeforeYear(date.year) + DaysBeforeMonth(date.year, date.month) + date.day

(***************************************************************************)
(* Quarter labels the parser is tried on: leading space, year token,       *)
(* separator, quarter token, trailing text.                                *)
(***************************************************************************)
YearTokens ==
    { <<"2", "0", "1", "4">>, <<"2", "0", "1", "6">>, <<"1", "4">>,
      <<"2", "0", "x", "4">>, <<"+", "2", "0", "1", "6">> }

QuarterTokens ==
    { <<"Q", "1">>, <<"Q", "2">>, <<"Q", "3">>, <<"Q", "4">>, <<"Q", "5">>, <<"Q", "0">>,
      <<"1">>, <<"1", "Q">>, <<"Q">>, <<"q", "1">>, <<"Q", "Q", "2">>, <<"Q", "1", "2">>,
      <<"Q", "-", "1">> }

Separators == { <<>>, <<" ">>, <<" ", "\t">> }
Leaders == { <<>>, <<" ">> }
Trailers == { <<>>, <<" ">>, <<" ", "e", "x", "t", "r", "a">> }

ParserLabels ==
    { l \o y \o s \o q \o t :
        l \in Leaders, y \in YearTokens, s \in Separators, q \in QuarterTokens, t \in Trailers }

ParserIdle == label = <<>> /\ pq = None /\ qd = None

CallParseQuarter ==
    /\ pq' = Some(parse_quarter(label))
    /\ UNCHANGED <<label, qd, loaderVars, validatorVars, preprocessorVars>>

CallQuarterToDate ==
    /\ \E o \in quarter_to_date(label) : qd' = Some(o)
    /\ UNCHANGED <<label, pq, loaderVars, validatorVars, preprocessorVars>>

(***************************************************************************)
(* Config (src/src/utils/config.py) and the CSV files offered to the loader.*)
(***************************************************************************)
REQUIRED_COLUMNS == <<"Quarter", "LFPR", "ER", "UR", "UER">>

\* Config.REQUIRED_COLUMNS[1:]
Indicators == Tail(REQUIRED_COLUMNS)

MaxRows == 2

Q2015_4 == <<"2", "0", "1", "5", " ", "Q", "4">>
Q2016_1 == <<"2", "0", "1", "6", " ", "Q", "1">>
Q2016_1_bare == <<"2", "0", "1", "6", " ", "1">>
Q_reversed == <<"Q", "1", " ", "2", "0", "1", "6">>

LoaderLabels == {Q2015_4, Q2016_1, Q2016_1_bare, Q_reversed}

LabelSeqs == UNION {[1..n -> LoaderLabels] : n \in 0..MaxRows}

ColumnSets == {REQUIRED_COLUMNS, <<"LFPR", "ER", "UR">>}

\* The row at line i of a file: its indicator cells tell the lines apart
FileRow(columns, lbl, i) ==
    LET full == [Quarter |-> lbl, LFPR |-> Num(60 + i), ER |-> Num(94), UR |-> Num(6), UER |-> Num(15)]
    IN [c \in Range(columns) |-> full[c]]

CsvFile(columns, labels) ==
    [path |-> <<columns, labels>>, exists |-> TRUE, columns |-> columns,
     rows |-> [i \in DOMAIN labels |-> FileRow(columns, labels[i], i)]]

NoFile == [path |-> <<>>, exists |-> FALSE, columns |-> <<>>, rows |-> <<>>]

Files == {CsvFile(c, l) : c \in ColumnSets, l \in LabelSeqs} \cup {NoFile}

(***************************************************************************)
(* DataLoader (src/src/data/data_loader.py).                               *)
(***************************************************************************)
Error(type, msg) == [type |-> type, msg |-> msg]
NoError == Error("", "")

Ret(op, arg, ok, error, value) == [op |-> op, arg |-> arg, ok |-> ok, error |-> error, value |-> value]

Raise(op, arg, error) == Ret(op, arg, FALSE, error, None)
Return(op, arg, value) == Ret(op, arg, TRUE, NoError, value)

\* df[name] = values: a new column goes last, an existing one is overwritten in place
SetColumn(df, name, values) ==
    [columns |-> IF name \in Range(df.columns) THEN df.columns ELSE Append(df.columns, name),
     rows |-> [i \in DOMAIN df.rows |-> (name :> values[i]) @@ df.rows[i]]]

Column(df, name) == [i \in DOMAIN df.rows |-> df.rows[i][name]]

\* df['Quarter'].apply(quarter_to_date): one possible outcome per row, in row order
Conversions(df) ==
    {c \in [DOMAIN df.rows -> UNION {quarter_to_date(df.rows[i].Quarter) : i \in DOMAIN df.rows}] :
        \A i \in DOMAIN df.rows : c[i] \in quarter_to_date(df.rows[i].Quarter)}

\* A load that forgets to sort
sort_values_unsorted(df) == {df}

\* df.sort_values('Date').reset_index(drop=True): kind defaults to 'quicksort',
\* which pandas documents as not stable, so rows of equal Date come in any order
sort_values(df) ==
    {[columns |-> df.columns, rows |-> [i \in DOMAIN df.rows |-> df.rows[p[i]]]] :
        p \in {q \in Permutations(DOMAIN df.rows) :
                 \A i, j \in DOMAIN df.rows :
                    i < j => Ordinal(df.rows[q[i]].Date) <= Ordinal(df.rows[q[j]].Date)}}

Metadata(file, df) ==
    [file_path |-> file.path, n_records |-> Len(df.rows),
     start_date |-> df.rows[1].Quarter, end_date |-> df.rows[Len(df.rows)].Quarter,
     columns |-> df.columns]

\* Lines 37-48 of load_csv, which touch no field of the loader: read, check the
\* columns, derive Date, sort. The possible outcomes for one file.
read_and_sort(file) ==
    LET df == [columns |-> file.columns, rows |-> file.rows]
        missing_cols == Range(REQUIRED_COLUMNS) \ Range(file.columns)
        fail(type, msg) == [ok |-> FALSE, error |-> Error(type, msg), df |-> df]
    IN IF ~file.exists THEN {fail("FileNotFoundError", "")}
       ELSE IF missing_cols # {} THEN {fail("ValueError", "Missing required columns")}
       ELSE UNION {
            IF \E i \in DOMAIN c : ~c[i].ok
            THEN LET first == CHOOSE i \in DOMAIN c : ~c[i].ok /\ \A j \in 1..(i - 1) : c[j].ok
                 IN {fail("ValueError", c[first].error)}
            ELSE {[ok |-> TRUE, error |-> NoError, df |-> sorted] :
                    sorted \in sort_values(SetColumn(df, "Date", [i \in DOMAIN c |-> c[i].date]))}
            : c \in Conversions(df)}

\* read_and_sort of every file, evaluated once
Prepared == [file \in Files |-> read_and_sort(file)]

LoadResult(d, m, ok, error) == [data |-> d, metadata |-> m, ok |-> ok, error |-> error]

\* A load that stores the table as soon as it is read, before the checks
load_csv_stores_early(self_data, self_metadata, file) ==
    {IF ~r.ok THEN LoadResult(IF file.exists THEN Some(r.df) ELSE self_data, self_metadata, FALSE, r.error)
     ELSE IF r.df.rows = <<>>
     THEN LoadResult(Some(r.df), self_metadata, FALSE,
                     Error("IndexError", "single positional indexer is out-of-bounds"))
     ELSE LoadResult(Some(r.df), Some(Metadata(file, r.df)), TRUE, NoError)
     : r \in Prepared[file]}

\* The outcomes of load_csv(file_path) on a loader holding (self_data, self_metadata):
\* the loader's fields afterwards, and whether the call returned or raised.
\* The metadata dict is built whole before it is stored (iloc[0] of an empty
\* table raises IndexError first), and self.data is stored after it; nothing
\* can raise between the two stores.
load_csv(self_data, self_metadata, file) ==
    {IF ~r.ok THEN LoadResult(self_data, self_metadata, FALSE, r.error)
     ELSE IF r.df.rows = <<>>
     THEN LoadResult(self_data, self_metadata, FALSE,
                     Error("IndexError", "single positional indexer is out-of-bounds"))
     ELSE LoadResult(Some(r.df), Some(Metadata(file, r.df)), TRUE, NoError)
     : r \in Prepared[file]}

LoaderIdle ==
    /\ data = None
    /\ metadata = None
    /\ ret = Return("__init__", None, None)
    /\ disk = {}

LoadCsv ==
    \E file \in Files : \E r \in load_csv(data, metadata, file) :
        /\ data' = r.data
        /\ metadata' = r.metadata
        /\ ret' = Ret("load_csv", None, r.ok, r.error, None)
        /\ UNCHANGED <<disk, parserVars, validatorVars, preprocessorVars>>

\* pandas Series statistics; missing cells are skipped (skipna)
Present(series) == SelectSeq(series, LAMBDA x : ~IsNaN(x))

Sorted(series) == SortSeq(Present(series), LAMBDA a, b : FLess(a, b))

RECURSIVE Sum(_)
Sum(series) == IF series = <<>> THEN Num(0) ELSE FAdd(series[1], Sum(Tail(series)))

MeanOf(xs) == IF xs = <<>> THEN NaN ELSE FDiv(Sum(xs), Num(Len(xs)))

Mean(series) == MeanOf(Present(series))

QuantileOfSorted(xs, lo, rem, den) ==
    IF xs = <<>> THEN NaN
    ELSE IF rem = 0 THEN xs[lo + 1]
    ELSE FAdd(xs[lo + 1], FMul(Rat(rem, den), FSub(xs[lo + 2], xs[lo + 1])))

QuantileAt(xs, num, den) ==
    QuantileOfSorted(xs, ((Len(xs) - 1) * num) \div den, ((Len(xs) - 1) * num) % den, den)

\* Series.quantile(num/den), linear interpolation between the two nearest ranks
Quantile(series, num, den) == QuantileAt(Sorted(series), num, den)

First(xs) == IF xs = <<>> THEN NaN ELSE xs[1]
Last(xs) == IF xs = <<>> THEN NaN ELSE xs[Len(xs)]

Min(series) == First(Sorted(series))
Max(series) == Last(Sorted(series))

SquaresAbout(xs, m) == [i \in DOMAIN xs |-> FMul(FSub(xs[i], m), FSub(xs[i], m))]

VarianceOf(xs) == IF Len(xs) < 2 THEN NaN ELSE FDiv(Sum(SquaresAbout(xs, MeanOf(xs))), Num(Len(xs) - 1))

\* The sample variance (ddof = 1); Series.std() is its square root, held here as
\* the variance because the root of a rational is not one
Variance(series) == VarianceOf(Present(series))

IndicatorArgs == {"LFPR", "ER", "UR", "UER", "Quarter", "Date", "GDP"}

\* An indicator check against all of REQUIRED_COLUMNS, the [1:] forgotten
get_indicator_data_any_column(self_data, indicator) ==
    IF self_data = None
    THEN Raise("get_indicator_data", indicator, Error("ValueError", "No data loaded. Call load_csv() first."))
    ELSE IF indicator \notin Range(REQUIRED_COLUMNS)
    THEN Raise("get_indicator_data", indicator, Error("ValueError", "Invalid indicator"))
    ELSE Return("get_indicator_data", indicator, Column(self_data[1], indicator))

get_indicator_data(self_data, indicator) ==
    IF self_data = None
    THEN Raise("get_indicator_data", indicator, Error("ValueError", "No data loaded. Call load_csv() first."))
    ELSE IF indicator \notin Range(Indicators)
    THEN Raise("get_indicator_data", indicator, Error("ValueError", "Invalid indicator"))
    ELSE Return("get_indicator_data", indicator, Column(self_data[1], indicator))

get_date_range(self_data) ==
    IF self_data = None
    THEN Return("get_date_range", None, <<None, None>>)
    ELSE Return("get_date_range", None,
                <<Some(self_data[1].rows[1].Quarter),
                  Some(self_data[1].rows[Len(self_data[1].rows)].Quarter)>>)

Describe(series) ==
    [mean |-> Mean(series), median |-> Quantile(series, 1, 2),
     std2 |-> Variance(series), min |-> Min(series), max |-> Max(series),
     q25 |-> Quantile(series, 1, 4), q75 |-> Quantile(series, 3, 4)]

get_summary_statistics(self_data) ==
    IF self_data = None
    THEN Raise("get_summary_statistics", None, Error("ValueError", "No data loaded"))
    ELSE Return("get_summary_statistics", None,
                [i \in Range(Indicators) |-> Describe(Column(self_data[1], i))])

DefaultExportPath == "data/processed/processed_data.csv"

OutputPaths == {None, Some("exports/out.csv")}

\* What to_csv leaves at a path: the header and the number of data lines
Written(path, df) == [path |-> path, columns |-> df.columns, n_rows |-> Len(df.rows)]

export_processed_data(self_data, output_path) ==
    IF self_data = None
    THEN Raise("export_processed_data", output_path, Error("ValueError", "No data to export"))
    ELSE Return("export_processed_data", output_path,
                IF output_path = None THEN DefaultExportPath ELSE output_path[1])

GetIndicatorData ==
    /\ \E indicator \in IndicatorArgs : ret' = get_indicator_data(data, indicator)
    /\ UNCHANGED <<data, metadata, disk, parserVars, validatorVars, preprocessorVars>>

GetDateRange ==
    /\ ret' = get_date_range(data)
    /\ UNCHANGED <<data, metadata, disk, parserVars, validatorVars, preprocessorVars>>

GetSummaryStatistics ==
    /\ ret' = get_summary_statistics(data)
    /\ UNCHANGED <<data, metadata, disk, parserVars, validatorVars, preprocessorVars>>

ExportProcessedData ==
    /\ \E output_path \in OutputPaths :
        LET r == export_processed_data(data, output_path)
        IN /\ ret' = r
           /\ disk' = IF r.ok
                      THEN {w \in disk : w.path # r.value} \cup {Written(r.value, data[1])}
                      ELSE disk
    /\ UNCHANGED <<data, metadata, parserVars, validatorVars, preprocessorVars>>

LoaderNext ==
    \/ LoadCsv
    \/ GetIndicatorData
    \/ GetDateRange
    \/ GetSummaryStatistics
    \/ ExportProcessedData

(***************************************************************************)
(* DataValidator (src/src/data/data_validator.py).                         *)
(***************************************************************************)
\* The Quarter labels of the rows that a boolean mask selects, in row order
RECURSIVE SelectedFrom(_, _, _, _)
SelectedFrom(df, mask, name, i) ==
    IF i > Len(df.rows) THEN <<>>
    ELSE (IF mask[i] THEN <<df.rows[i][name]>> ELSE <<>>) \o SelectedFrom(df, mask, name, i + 1)

Selected(df, mask, name) == SelectedFrom(df, mask, name, 1)

\* A Quarter cell is a label and is never missing in a loaded table (load_csv
\* fails on a missing one); an indicator cell is missing when it is NaN
IsNull(name, cell) == name # "Quarter" /\ IsNaN(cell)

NullCount(df, c) == Cardinality({i \in DOMAIN df.rows : IsNull(c, df.rows[i][c])})

MissingResult(counts, total) == [has_missing |-> total > 0, counts |-> counts, total_missing |-> total]

MissingOf(counts) ==
    MissingResult(counts, Sum([i \in DOMAIN REQUIRED_COLUMNS |-> Num(counts[REQUIRED_COLUMNS[i]])]).n)

check_missing_values(df) == MissingOf([c \in Range(REQUIRED_COLUMNS) |-> NullCount(df, c)])

\* helpers.validate_data_range: data.between(min_val, max_val).all(), NaN is not between
validate_data_range(series, min_val, max_val) ==
    \A i \in DOMAIN series : FLeq(Num(min_val), series[i]) /\ FLeq(series[i], Num(max_val))

RangeOf(series) ==
    [valid |-> validate_data_range(series, 0, 100), min |-> Min(series), max |-> Max(series)]

RangesResult(results) ==
    [all_valid |-> \A i \in Range(Indicators) : results[i].valid, indicators |-> results]

check_data_ranges(df) == RangesResult([i \in Range(Indicators) |-> RangeOf(Column(df, i))])

\* expected_diff = pd.Timedelta(days=90), in days
expected_diff == 90

\* A threshold that forgets the factor 1.5
gap_threshold_without_factor == expected_diff * 1

\* expected_diff * 1.5
gap_threshold == (expected_diff * 3) \div 2

Latest(dates) == CHOOSE d \in Range(dates) : \A e \in Range(dates) : e <= d
Earliest(dates) == CHOOSE d \in Range(dates) : \A e \in Range(dates) : d <= e

\* dates.diff()[1:] lives on the rows 2..n; a row is a gap when its distance to
\* the row before exceeds the threshold
GapMask(dates) == [i \in DOMAIN dates |-> i > 1 /\ dates[i] - dates[i - 1] > gap_threshold]

ContinuityResult(df, dates, gaps_found, gap) ==
    [is_continuous |-> gaps_found = 0,
     expected_quarters |-> ((Latest(dates) - Earliest(dates)) \div expected_diff) + 1,
     actual_quarters |-> Len(dates),
     gaps_found |-> gaps_found,
     gap_locations |-> Selected(df, gap, "Quarter")]

ContinuityOf(df, dates, gap) ==
    ContinuityResult(df, dates, Cardinality({i \in DOMAIN dates : gap[i]}), gap)

ContinuityOn(df, dates) == ContinuityOf(df, dates, GapMask(dates))

\* Its int(...) of NaN raises on an empty table; see validate_all
check_temporal_continuity(df) ==
    ContinuityOn(df, [i \in DOMAIN df.rows |-> Ordinal(df.rows[i].Date)])

Fences(series, lower_bound, upper_bound) ==
    [i \in DOMAIN series |-> FLess(series[i], lower_bound) \/ FLess(upper_bound, series[i])]

Fenced(series, Q1, Q3, spread) == Fences(series, FSub(Q1, spread), FAdd(Q3, spread))

OutsideIqr(series, Q1, Q3) == Fenced(series, Q1, Q3, FMul(Rat(3, 2), FSub(Q3, Q1)))

OutliersOfSorted(series, xs) == OutsideIqr(series, QuantileAt(xs, 1, 4), QuantileAt(xs, 3, 4))

\* helpers.detect_outliers_iqr with factor 1.5: outside [Q1 - 1.5 IQR, Q3 + 1.5 IQR]
detect_outliers_iqr(series) == OutliersOfSorted(series, Sorted(series))

OutlierResult(df, i, outliers, count) ==
    [count |-> count,
     percentage |-> FMul(FDiv(Num(count), Num(Len(df.rows))), Num(100)),
     quarters |-> Selected(df, outliers, "Quarter"),
     values |-> Selected(df, outliers, i)]

OutlierInfo(df, i, outliers) ==
    OutlierResult(df, i, outliers, Cardinality({r \in DOMAIN outliers : outliers[r]}))

detect_outliers(df) ==
    [i \in Range(Indicators) |-> OutlierInfo(df, i, detect_outliers_iqr(Column(df, i)))]

ConsistencyResult(df, inconsistent, count) ==
    [er_ur_consistent |-> count = 0,
     inconsistent_count |-> count,
     inconsistent_quarters |-> Selected(df, inconsistent, "Quarter")]

ConsistencyOf(df, inconsistent) ==
    ConsistencyResult(df, inconsistent, Cardinality({i \in DOMAIN inconsistent : inconsistent[i]}))

\* check_consistency with the tolerance itself counted as inconsistent (>= 2.0)
check_consistency_at_tolerance(df) ==
    ConsistencyOf(df, [i \in DOMAIN df.rows |->
                          FLeq(Num(2), FAbs(FSub(FAdd(df.rows[i].ER, df.rows[i].UR), Num(100))))])

\* tolerance = 2.0; a NaN sum compares false and is not flagged
check_consistency(df) ==
    ConsistencyOf(df, [i \in DOMAIN df.rows |->
                          FLess(Num(2), FAbs(FSub(FAdd(df.rows[i].ER, df.rows[i].UR), Num(100))))])

Checks(df) ==
    [missing_values |-> check_missing_values(df),
     data_ranges |-> check_data_ranges(df),
     temporal_continuity |-> check_temporal_continuity(df),
     outliers |-> detect_outliers(df),
     consistency |-> check_consistency(df)]

\* An aggregate that lets the consistency check gate the verdict as well
overall_valid_gated_by_consistency(results) ==
    /\ ~results.missing_values.has_missing
    /\ results.data_ranges.all_valid
    /\ results.temporal_continuity.is_continuous
    /\ results.consistency.er_ur_consistent

overall_valid(results) ==
    /\ ~results.missing_values.has_missing
    /\ results.data_ranges.all_valid
    /\ results.temporal_continuity.is_continuous

WithVerdict(results) ==
    [missing_values |-> results.missing_values,
     data_ranges |-> results.data_ranges,
     temporal_continuity |-> results.temporal_continuity,
     outliers |-> results.outliers,
     consistency |-> results.consistency,
     overall_valid |-> overall_valid(results)]

\* validate_all: the five checks, then the verdict. On an empty table
\* check_temporal_continuity raises (int of NaN) and nothing is stored.
validate_all(df) ==
    IF df.rows = <<>>
    THEN [ok |-> FALSE, error |-> Error("ValueError", "cannot convert float NaN to integer"),
          results |-> None]
    ELSE [ok |-> TRUE, error |-> NoError, results |-> Some(WithVerdict(Checks(df)))]

\* f"{x:.1f}": x rounded to tenths, ties to even, as a count of tenths
Tenths(x) ==
    LET scaled == 10 * x.n
        q == scaled \div x.d
        twice == 2 * (scaled % x.d)
    IN IF twice < x.d THEN q
       ELSE IF twice > x.d THEN q + 1
       ELSE IF q % 2 = 0 THEN q ELSE q + 1

OneDecimal(x) == ToString(Tenths(x) \div 10) \o "." \o ToString(Tenths(x) % 10)

Rule == "============================================================"

\* The lines of the report; the check mark and the cross are written OK and XX
Render(r) ==
    << Rule, "DATA VALIDATION REPORT", Rule, "",
       "Missing Values: " \o (IF ~r.missing_values.has_missing THEN "OK None"
                              ELSE "XX " \o ToString(r.missing_values.total_missing) \o " found"),
       "Data Ranges: " \o (IF r.data_ranges.all_valid THEN "OK All valid" ELSE "XX Invalid values found"),
       "Temporal Continuity: " \o (IF r.temporal_continuity.is_continuous THEN "OK Continuous"
                                   ELSE "XX " \o ToString(r.temporal_continuity.gaps_found) \o " gaps found"),
       "", "Outliers Detected:" >>
    \o [i \in DOMAIN Indicators |->
          "  " \o Indicators[i] \o ": " \o ToString(r.outliers[Indicators[i]].count)
               \o " (" \o OneDecimal(r.outliers[Indicators[i]].percentage) \o "%)"]
    \o << "", "Consistency Check: " \o (IF r.consistency.er_ur_consistent THEN "OK Passed" ELSE "XX Failed"),
          "", Rule,
          "Overall Status: " \o (IF r.overall_valid THEN "OK VALID" ELSE "XX ISSUES FOUND"),
          Rule >>

ReportResult(results, ran, ok, text) == [validation_results |-> results, ran |-> ran, ok |-> ok, text |-> text]

\* The report after a validate_all that ended as v
ReportAfter(cached, v) ==
    IF ~v.ok THEN ReportResult(cached, 1, FALSE, None)
    ELSE ReportResult(v.results, 1, TRUE, Some(Render(v.results[1])))

\* A report that validates afresh on every call
get_validation_report_uncached(df, cached) == ReportAfter(cached, validate_all(df))

\* get_validation_report on a validator holding (df, cached): the cache
\* afterwards, how many times validate_all ran, and the text returned
get_validation_report(df, cached) ==
    IF cached = None
    THEN ReportAfter(cached, validate_all(df))
    ELSE ReportResult(cached, 0, TRUE, Some(Render(cached[1])))

MaxCalls == 3

\* runs counts the calls: of validate_all (from outside or from the report) and
\* of get_validation_report
NoRuns == [validate_all |-> 0, report |-> 0]

ValidateAll ==
    /\ runs.validate_all + runs.report < MaxCalls
    /\ \E v \in {validate_all(vdata[1])} :
          /\ validation_results' = IF v.ok THEN v.results ELSE validation_results
          /\ runs' = [runs EXCEPT !.validate_all = @ + 1]
    /\ UNCHANGED <<vdata, report, parserVars, loaderVars, preprocessorVars>>

GetValidationReport ==
    /\ runs.validate_all + runs.report < MaxCalls
    /\ \E r \in {get_validation_report(vdata[1], validation_results)} :
          /\ validation_results' = r.validation_results
          /\ runs' = [validate_all |-> runs.validate_all + r.ran, report |-> runs.report + 1]
          /\ report' = r.text
    /\ UNCHANGED <<vdata, parserVars, loaderVars, preprocessorVars>>

ValidatorNext ==
    \/ ValidateAll
    \/ GetValidationReport

(***************************************************************************)
(* The datasets a validator is built on: tables as load_csv leaves them,   *)
(* one row per quarter, sorted by Date.                                    *)
(***************************************************************************)
MaxObs == 4

DigitChar(n) ==
    CASE n = 0 -> "0" [] n = 1 -> "1" [] n = 2 -> "2" [] n = 3 -> "3" [] n = 4 -> "4"
      [] n = 5 -> "5" [] n = 6 -> "6" [] n = 7 -> "7" [] n = 8 -> "8" [] n = 9 -> "9"

\* The label "YYYY Qn" of quarter k, the quarters numbered 4 * year + (n - 1)
LabelOf(k) ==
    LET y == k \div 4
    IN << DigitChar(y \div 1000), DigitChar((y \div 100) % 10), DigitChar((y \div 10) % 10),
          DigitChar(y % 10), " ", "Q", DigitChar((k % 4) + 1) >>

QuarterIndex(year, quarter) == 4 * year + (quarter - 1)

DateOf(lbl) == (CHOOSE o \in quarter_to_date(lbl) : o.ok).date

Observation(k, profile) ==
    [Quarter |-> LabelOf(k), LFPR |-> profile.LFPR, ER |-> profile.ER, UR |-> profile.UR,
     UER |-> profile.UER, Date |-> DateOf(LabelOf(k))]

Dataset(ks, profiles) ==
    [columns |-> Append(REQUIRED_COLUMNS, "Date"),
     rows |-> [i \in DOMAIN ks |-> Observation(ks[i], profiles[i])]]

Typical == [LFPR |-> Num(64), ER |-> Num(94), UR |-> Num(6), UER |-> Num(15)]

Profiles ==
    { Typical,
      [Typical EXCEPT !.LFPR = Num(99)],              \* far from the others
      [Typical EXCEPT !.LFPR = NaN],                  \* a missing value
      [Typical EXCEPT !.UER = Num(150)],              \* out of range
      [Typical EXCEPT !.ER = Num(90), !.UR = Num(5)]  \* ER + UR off by 5
    }

\* Quarters from 2015 Q4 on, consecutive or with the one after the first left out
ProfileDatasets ==
    UNION { { Dataset([i \in 1..n |-> QuarterIndex(2015, 4) + (i - 1) + (IF i > 1 THEN skip ELSE 0)], ps) :
                skip \in {0, 1}, ps \in [1..n -> Profiles] } : n \in 1..MaxObs }

RECURSIVE QuartersFrom(_, _)
QuartersFrom(k, steps) ==
    IF steps = <<>> THEN <<k>> ELSE <<k>> \o QuartersFrom(k + steps[1], Tail(steps))

\* Runs of quarters starting anywhere in 2015 or 2016 (a leap year), each next
\* row the same quarter again, the next quarter, or the one after it
CalendarDatasets ==
    UNION { { Dataset(QuartersFrom(k, steps), [i \in 1..n |-> Typical]) :
                k \in QuarterIndex(2015, 1)..QuarterIndex(2016, 4), steps \in [1..(n - 1) -> {0, 1, 2}] }
            : n \in 1..MaxObs }

MaxChecked == 3

\* ER and UR summing to 100, to 100 - 2 and 100 + 2 exactly, to a tenth beyond
\* either, and with ER missing
SumProfiles ==
    { Typical,
      [Typical EXCEPT !.ER = Num(94), !.UR = Num(4)],
      [Typical EXCEPT !.ER = Num(96), !.UR = Num(6)],
      [Typical EXCEPT !.ER = Rat(939, 10), !.UR = Num(4)],
      [Typical EXCEPT !.ER = Num(96), !.UR = Rat(61, 10)],
      [Typical EXCEPT !.ER = NaN]
    }

SumDatasets ==
    UNION { { Dataset([i \in 1..n |-> QuarterIndex(2015, 4) + (i - 1)], ps) : ps \in [1..n -> SumProfiles] }
            : n \in 1..MaxChecked }

ValidatorOn(datasets) ==
    /\ vdata \in {Some(d) : d \in datasets}
    /\ validation_results = None
    /\ runs = NoRuns
    /\ report = None

(***************************************************************************)
(* DataPreprocessor (src/src/data/data_preprocessor.py).                   *)
(*                                                                         *)
(* Tables are objects: heap holds the table behind each reference.         *)
(*   caller  the DataFrame handed to the constructor                       *)
(*   self    self.data                                                     *)
(*   df      the copy a method makes and works on                          *)
(*   new     the table pd.concat builds                                    *)
(* A method runs on m = [heap, ref], ref being what its local df refers to.*)
(***************************************************************************)
EmptyFrame == [columns |-> <<>>, rows |-> <<>>]

\* DataFrame.copy() that hands back the table itself
copy_aliased(h, src) == [heap |-> h, ref |-> src]

\* df = <src>.copy(): a new table with the same columns and values
copy(h, src) == [heap |-> [h EXCEPT !.df = h[src]], ref |-> "df"]

Frame(m) == m.heap[m.ref]

\* df[name] = values, in place on the table df refers to
Assign(m, name, values) == [m EXCEPT !.heap[m.ref] = SetColumn(@, name, values)]

\* df = <a table just built>
Rebind(m, frame) == [heap |-> [m.heap EXCEPT !.new = frame], ref |-> "new"]

Series(m, name) == Column(Frame(m), name)

\* Series.shift(k): the value k rows earlier, missing where there is none
shift(series, k) ==
    [i \in DOMAIN series |-> IF i - k \in DOMAIN series THEN series[i - k] ELSE NaN]

\* helpers.calculate_moving_average: rolling(window).mean(), missing until the
\* window is full
calculate_moving_average(series, window) ==
    [i \in DOMAIN series |->
        IF i < window THEN NaN ELSE FDiv(Sum(SubSeq(series, i - window + 1, i)), Num(window))]

\* Series.pct_change(periods): data / data.shift(periods) - 1 (on a series
\* without missing values, where the fill method plays no part)
pct_change(series, periods) ==
    [i \in DOMAIN series |-> FSub(FDiv(series[i], shift(series, periods)[i]), Num(1))]

Times100(series) == [i \in DOMAIN series |-> FMul(series[i], Num(100))]

\* helpers.calculate_change: 0.0 on a zero previous value; no method of the
\* preprocessor calls it
calculate_change(current, previous) ==
    IF IsNum(previous) /\ previous.n = 0 THEN Num(0)
    ELSE FMul(FDiv(FSub(current, previous), previous), Num(100))

\* sin and cos of 2 pi q / 4, at their exact values (numpy is off by 1e-16 at the zeros)
QuarterSin(q) == CASE q = 1 -> Num(1) [] q = 2 -> Num(0) [] q = 3 -> Num(-1) [] q = 4 -> Num(0)
QuarterCos(q) == CASE q = 1 -> Num(0) [] q = 2 -> Num(-1) [] q = 3 -> Num(0) [] q = 4 -> Num(1)

\* Series.dt.year, .dt.quarter and .dt.month of the Date column
YearOfDate(m) == [i \in DOMAIN Frame(m).rows |-> Num(Frame(m).rows[i].Date.year)]
QuarterOfDate(m) == [i \in DOMAIN Frame(m).rows |-> Num(((Frame(m).rows[i].Date.month - 1) \div 3) + 1)]
MonthOfDate(m) == [i \in DOMAIN Frame(m).rows |-> Num(Frame(m).rows[i].Date.month)]

AddQuarterCos(m) ==
    Assign(m, "Quarter_cos", [i \in DOMAIN Frame(m).rows |-> QuarterCos(Frame(m).rows[i].QuarterNum.n)])

AddQuarterSin(m) ==
    AddQuarterCos(Assign(m, "Quarter_sin",
                         [i \in DOMAIN Frame(m).rows |-> QuarterSin(Frame(m).rows[i].QuarterNum.n)]))

AddMonth(m) == AddQuarterSin(Assign(m, "Month", MonthOfDate(m)))

AddQuarterNum(m) == AddMonth(Assign(m, "QuarterNum", QuarterOfDate(m)))

AddYear(m) == AddQuarterNum(Assign(m, "Year", YearOfDate(m)))

create_temporal_features(h) == AddYear(copy(h, "self"))

\* helpers.create_lag_features, its columns already renamed <indicator>_lag_<k>
RECURSIVE LagColumns(_, _, _)
LagColumns(series, indicator, lags) ==
    IF lags = <<>> THEN <<>>
    ELSE << [name |-> indicator \o "_lag_" \o ToString(lags[1]), values |-> shift(series, lags[1])] >>
         \o LagColumns(series, indicator, Tail(lags))

\* pd.concat([df, lag_df], axis=1): a new table, the lag columns after df's
RECURSIVE Concat(_, _)
Concat(frame, cols) ==
    IF cols = <<>> THEN frame
    ELSE Concat(SetColumn(frame, cols[1].name, cols[1].values), Tail(cols))

RECURSIVE LagLoop(_, _, _)
LagLoop(m, indicators, lags) ==
    IF indicators = <<>> THEN m
    ELSE LagLoop(Rebind(m, Concat(Frame(m), LagColumns(Series(m, indicators[1]), indicators[1], lags))),
                 Tail(indicators), lags)

add_lag_features(h, indicators, lags) == LagLoop(copy(h, "self"), indicators, lags)

\* The (indicator, parameter) pairs in the order the nested loops visit them
RECURSIVE LoopPairs(_, _)
LoopPairs(indicators, params) ==
    IF indicators = <<>> THEN <<>>
    ELSE [i \in DOMAIN params |-> <<indicators[1], params[i]>>] \o LoopPairs(Tail(indicators), params)

RECURSIVE MovingAverageLoop(_, _)
MovingAverageLoop(m, pairs) ==
    IF pairs = <<>> THEN m
    ELSE MovingAverageLoop(
            Assign(m, pairs[1][1] \o "_ma" \o ToString(pairs[1][2]),
                   calculate_moving_average(Series(m, pairs[1][1]), pairs[1][2])),
            Tail(pairs))

add_moving_averages(h, indicators, windows) ==
    MovingAverageLoop(copy(h, "self"), LoopPairs(indicators, windows))

RECURSIVE RateOfChangeLoop(_, _)
RateOfChangeLoop(m, pairs) ==
    IF pairs = <<>> THEN m
    ELSE RateOfChangeLoop(
            Assign(m, pairs[1][1] \o "_change" \o ToString(pairs[1][2]),
                   Times100(pct_change(Series(m, pairs[1][1]), pairs[1][2]))),
            Tail(pairs))

DefaultPeriods == <<1, 4>>

add_rate_of_change(h, indicators, periods) ==
    RateOfChangeLoop(copy(h, "self"), LoopPairs(indicators, periods))

\* (x - mean) / std with std the root of the variance var: a cell of kind
\* "root" stands for sign(n) * sqrt(|n| / d); 0/0 and a missing std give NaN
RootCell(q, sign) == [k |-> "root", n |-> sign * q.n, d |-> q.d]

OverRoot(dev, var) ==
    IF ~IsNum(dev) \/ ~IsNum(var) \/ var.n = 0 THEN FDiv(dev, var)
    ELSE RootCell(FDiv(FMul(dev, dev), var), Sign(dev.n))

ZScore(series, mean, var) == [i \in DOMAIN series |-> OverRoot(FSub(series[i], mean), var)]

MinMax(series, min_val, max_val) ==
    [i \in DOMAIN series |-> FDiv(FSub(series[i], min_val), FSub(max_val, min_val))]

\* Any other method adds no column and raises nothing
Normalized(series, method) ==
    IF method = "zscore" THEN ZScore(series, Mean(series), Variance(series))
    ELSE MinMax(series, Min(series), Max(series))

RECURSIVE NormalizeLoop(_, _, _)
NormalizeLoop(m, indicators, method) ==
    IF indicators = <<>> THEN m
    ELSE NormalizeLoop(
            IF method \in {"zscore", "minmax"}
            THEN Assign(m, indicators[1] \o "_norm", Normalized(Series(m, indicators[1]), method))
            ELSE m,
            Tail(indicators), method)

normalize_indicators(h, indicators, method) == NormalizeLoop(copy(h, "self"), indicators, method)

IsMissing(name, cell) == name \notin {"Quarter", "Date"} /\ IsNaN(cell)

\* DataFrame.dropna(): a new table of the rows without a missing cell
dropna(frame) ==
    [columns |-> frame.columns,
     rows |-> SelectSeq(frame.rows, LAMBDA row : \A c \in DOMAIN row : ~IsMissing(c, row[c]))]

\* Every step of prepare_for_modeling rebinds df to what a method of self
\* returns, and each of those starts from self.data.copy()
Step(m, wanted, next) == IF wanted THEN next ELSE m

DropStep(m) == Rebind(m, dropna(Frame(m)))

RateStep(m, target) == DropStep(add_rate_of_change(m.heap, <<target>>, DefaultPeriods))

MovingAverageStep(m, target, include_ma) ==
    RateStep(Step(m, include_ma, add_moving_averages(m.heap, <<target>>, <<2, 4>>)), target)

LagStep(m, target, include_lags, include_ma) ==
    MovingAverageStep(Step(m, include_lags, add_lag_features(m.heap, <<target>>, <<1, 2, 4>>)),
                      target, include_ma)

TemporalStep(m, target, include_lags, include_ma, include_temporal) ==
    LagStep(Step(m, include_temporal, create_temporal_features(m.heap)), target, include_lags, include_ma)

prepare_for_modeling(h, target_indicator, include_lags, include_ma, include_temporal) ==
    TemporalStep(copy(h, "self"), target_indicator, include_lags, include_ma, include_temporal)

\* When a method returns, its locals die: only the caller's table, self.data and
\* the returned table are left
Returned(m) ==
    [caller |-> m.heap.caller, self |-> m.heap.self,
     df |-> IF m.ref = "df" THEN m.heap.df ELSE EmptyFrame,
     new |-> IF m.ref = "new" THEN m.heap.new ELSE EmptyFrame]

IndicatorLists == {<<"UR">>, <<"LFPR", "ER">>}
LagLists == {<<1>>, <<1, 2, 4>>}
WindowLists == {<<2>>, <<2, 4>>}
PeriodLists == {<<1>>, DefaultPeriods}
Methods == {"zscore", "minmax", "robust"}
Targets == {"UR", "LFPR"}

CreateTemporalFeatures ==
    \E m \in {create_temporal_features(heap)} :
        /\ heap' = Returned(m)
        /\ out' = Some([op |-> "create_temporal_features", args |-> None, ref |-> m.ref])
        /\ UNCHANGED <<constructed, parserVars, loaderVars, validatorVars>>

AddLagFeatures ==
    \E indicators \in IndicatorLists, lags \in LagLists :
        \E m \in {add_lag_features(heap, indicators, lags)} :
            /\ heap' = Returned(m)
            /\ out' = Some([op |-> "add_lag_features", args |-> <<indicators, lags>>, ref |-> m.ref])
            /\ UNCHANGED <<constructed, parserVars, loaderVars, validatorVars>>

AddMovingAverages ==
    \E indicators \in IndicatorLists, windows \in WindowLists :
        \E m \in {add_moving_averages(heap, indicators, windows)} :
            /\ heap' = Returned(m)
            /\ out' = Some([op |-> "add_moving_averages", args |-> <<indicators, windows>>, ref |-> m.ref])
            /\ UNCHANGED <<constructed, parserVars, loaderVars, validatorVars>>

AddRateOfChange ==
    \E indicators \in IndicatorLists, periods \in PeriodLists :
        \E m \in {add_rate_of_change(heap, indicators, periods)} :
            /\ heap' = Returned(m)
            /\ out' = Some([op |-> "add_rate_of_change", args |-> <<indicators, periods>>, ref |-> m.ref])
            /\ UNCHANGED <<constructed, parserVars, loaderVars, validatorVars>>

NormalizeIndicators ==
    \E indicators \in IndicatorLists, method \in Methods :
        \E m \in {normalize_indicators(heap, indicators, method)} :
            /\ heap' = Returned(m)
            /\ out' = Some([op |-> "normalize_indicators", args |-> <<indicators, method>>, ref |-> m.ref])
            /\ UNCHANGED <<constructed, parserVars, loaderVars, validatorVars>>

PrepareForModeling ==
    \E target \in Targets, include_lags, include_ma, include_temporal \in BOOLEAN :
        \E m \in {prepare_for_modeling(heap, target, include_lags, include_ma, include_temporal)} :
            /\ heap' = Returned(m)
            /\ out' = Some([op |-> "prepare_for_modeling",
                            args |-> [target_indicator |-> target, include_lags |-> include_lags,
                                      include_ma |-> include_ma, include_temporal |-> include_temporal],
                            ref |-> m.ref])
            /\ UNCHANGED <<constructed, parserVars, loaderVars, validatorVars>>

PreprocessorNext ==
    \/ CreateTemporalFeatures
    \/ AddLagFeatures
    \/ AddMovingAverages
    \/ AddRateOfChange
    \/ NormalizeIndicators
    \/ PrepareForModeling

(***************************************************************************)
(* The datasets a preprocessor is built on: consecutive quarters from      *)
(* 2015 Q4, no value missing.                                              *)
(***************************************************************************)
MaxSeries == 5

SeriesProfiles ==
    { Typical,
      [LFPR |-> Num(60), ER |-> Num(100), UR |-> Num(0), UER |-> Num(20)] }

SeriesDatasets ==
    UNION { { Dataset([i \in 1..n |-> QuarterIndex(2015, 4) + (i - 1)], ps) : ps \in [1..n -> SeriesProfiles] }
            : n \in 1..MaxSeries }

\* DataPreprocessor(data): self.data = data.copy()
PreprocessorOn(datasets) ==
    \E d \in datasets :
        /\ heap = [caller |-> d, self |-> d, df |-> EmptyFrame, new |-> EmptyFrame]
        /\ constructed = Some(d)
        /\ out = None

(***************************************************************************)
(* Specifications, one per component; the other components stand idle.     *)
(***************************************************************************)
ValidatorIdle == vdata = None /\ validation_results = None /\ runs = NoRuns /\ report = None

PreprocessorIdle == heap = None /\ out = None /\ constructed = None

ParserInit == label \in ParserLabels /\ pq = None /\ qd = None /\ LoaderIdle /\ ValidatorIdle /\ PreprocessorIdle

ParserNext ==
    \/ CallParseQuarter
    \/ CallQuarterToDate

SpecParser == ParserInit /\ [][ParserNext]_vars

LoaderInit == ParserIdle /\ LoaderIdle /\ ValidatorIdle /\ PreprocessorIdle

SpecLoader == LoaderInit /\ [][LoaderNext]_vars

(***************************************************************************)
(* Claims about the DataLoader, checked under SpecLoader.                  *)
(***************************************************************************)
FileAt(path) == CHOOSE f \in Files : f.path = path

\* The line of its file a loaded row came from (FileRow writes it into LFPR)
Line(row) == row.LFPR.n - 60

WithoutDate(row) == [c \in (DOMAIN row) \ {"Date"} |-> row[c]]

\* The loaded rows are the lines of the file, each exactly once, in some order
RowsAreLinesOf(df, file) ==
    /\ Len(df.rows) = Len(file.rows)
    /\ {Line(df.rows[i]) : i \in DOMAIN df.rows} = DOMAIN file.rows
    /\ \A i \in DOMAIN df.rows : WithoutDate(df.rows[i]) = file.rows[Line(df.rows[i])]

DateSorted(df) ==
    \A i, j \in DOMAIN df.rows : i < j => Ordinal(df.rows[i].Date) <= Ordinal(df.rows[j].Date)

TiesInLineOrder(df) ==
    \A i, j \in DOMAIN df.rows :
        (i < j /\ Ordinal(df.rows[i].Date) = Ordinal(df.rows[j].Date)) => Line(df.rows[i]) < Line(df.rows[j])

DataPairedWithMetadata ==
    \/ data = None /\ metadata = None
    \/ /\ data # None
       /\ metadata # None
       /\ RowsAreLinesOf(data[1], FileAt(metadata[1].file_path))
       /\ metadata[1] = Metadata(FileAt(metadata[1].file_path), data[1])

LoadFailed == ret.op = "load_csv" /\ ~ret.ok

\* C3: a load_csv call that fails leaves self.data and self.metadata exactly as
\* they were before the call, and at every moment data and metadata are both
\* empty or both those of one and the same successful load.
C3_FailedLoadKeepsState ==
    /\ [][LoadFailed' => (data' = data /\ metadata' = metadata)]_vars
    /\ []DataPairedWithMetadata

\* C3 witness: a load failed on an unparsable Quarter label after an earlier
\* load had succeeded.
C3_Witness ==
    /\ LoadFailed
    /\ ret.error = Error("ValueError", FormatError)
    /\ data # None

C5_OneRowPerQuarterLabel ==
    data # None =>
        \A i, j \in DOMAIN data[1].rows : i # j => data[1].rows[i].Quarter # data[1].rows[j].Quarter

NeedsData == {"get_indicator_data", "get_summary_statistics", "export_processed_data"}

Unloaded == data = None

\* The exception type get_indicator_data raises for an argument that is no indicator
InvalidArgumentType ==
    get_indicator_data(Some([columns |-> <<>>, rows |-> <<>>]), "GDP").error.type

UnloadedCallsFail ==
    /\ (Unloaded /\ ret.op \in NeedsData) => ~ret.ok
    /\ Unloaded => disk = {}
    /\ (Unloaded /\ ret.op = "get_date_range") => (ret.ok /\ ret.value = <<None, None>>)

IndicatorChecked ==
    (~Unloaded /\ ret.op = "get_indicator_data") =>
        /\ ~ret.ok <=> ret.arg \notin {"LFPR", "ER", "UR", "UER"}
        /\ ~ret.ok => ret.error = Error(InvalidArgumentType, "Invalid indicator")

\* C8 as claimed: before any load the three calls that need data fail with a
\* state error whose type is not that of the invalid-argument error, and write
\* nothing; get_date_range returns (None, None); after a load
\* get_indicator_data fails exactly for a name outside LFPR, ER, UR, UER.
C8_StateErrorIsDistinct ==
    /\ UnloadedCallsFail
    /\ IndicatorChecked
    /\ (Unloaded /\ ret.op \in NeedsData) => ret.error.type # InvalidArgumentType

\* C8 as amended: the same, except that the error raised before any load is a
\* ValueError, the type of the invalid-argument error, told apart from it only
\* by its message.
C8_UnloadedRaisesValueError ==
    /\ UnloadedCallsFail
    /\ IndicatorChecked
    /\ (Unloaded /\ ret.op \in NeedsData) =>
          /\ ret.error.type = "ValueError"
          /\ ret.error.type = InvalidArgumentType
          /\ ret.error.msg \in {"No data loaded. Call load_csv() first.", "No data loaded", "No data to export"}

\* C8 witness: get_indicator_data('Quarter') was rejected on a loaded loader.
C8_Witness ==
    /\ ~Unloaded
    /\ ret.op = "get_indicator_data"
    /\ ret.arg = "Quarter"
    /\ ~ret.ok

(***************************************************************************)
(* Claims about the quarter parser, checked under SpecParser.              *)
(***************************************************************************)
\* The shape the claim allows: two whitespace-separated tokens, a year of four
\* digits and Q followed by one of 1, 2, 3, 4
WellFormed(l) ==
    LET parts == Split(l)
    IN /\ Len(parts) = 2
       /\ Len(parts[1]) = 4
       /\ \A i \in 1..4 : parts[1][i] \in Digits
       /\ Len(parts[2]) = 2
       /\ parts[2][1] = "Q"
       /\ parts[2][2] \in {"1", "2", "3", "4"}

\* C2 as claimed: parse_quarter fails with the format error, and returns no
\* (year, quarter) pair, on every label that is not of the well-formed shape.
C2_MalformedLabelsFail ==
    (pq # None /\ ~WellFormed(label)) => (~pq[1].ok /\ pq[1].error = FormatError)

ValidatorInit == ParserIdle /\ LoaderIdle /\ ValidatorOn(ProfileDatasets) /\ PreprocessorIdle

SpecValidator == ValidatorInit /\ [][ValidatorNext]_vars

ContinuityInit == ParserIdle /\ LoaderIdle /\ ValidatorOn(CalendarDatasets) /\ PreprocessorIdle

SpecContinuity == ContinuityInit /\ [][ValidatorNext]_vars

(***************************************************************************)
(* Claims about the DataValidator, checked under SpecValidator (datasets   *)
(* that vary in their values) and SpecContinuity (in their dates).         *)
(***************************************************************************)
Validated == validation_results # None

NoMissingValue(df) ==
    \A i \in DOMAIN df.rows : \A c \in Range(REQUIRED_COLUMNS) : c = "Quarter" \/ ~IsNaN(df.rows[i][c])

AllInRange(df) ==
    \A i \in DOMAIN df.rows : \A c \in {"LFPR", "ER", "UR", "UER"} :
        LET x == df.rows[i][c] IN IsNum(x) /\ 0 <= x.n /\ x.n <= 100 * x.d

DaysApart(df, i) == Ordinal(df.rows[i].Date) - Ordinal(df.rows[i - 1].Date)

NoTemporalGap(df) == \A i \in 2..Len(df.rows) : DaysApart(df, i) <= 135

\* C6: the overall_valid that validate_all stores is true exactly when no
\* required column has a missing value, every indicator value lies in [0,100]
\* and no temporal gap was found, whatever the outlier and consistency checks say.
C6_OverallValid ==
    Validated =>
        (validation_results[1].overall_valid
            <=> (NoMissingValue(vdata[1]) /\ AllInRange(vdata[1]) /\ NoTemporalGap(vdata[1])))

\* C6 witness: a validated dataset with an outlier and an ER+UR inconsistency
\* whose overall_valid is true.
C6_Witness ==
    /\ Validated
    /\ validation_results[1].overall_valid
    /\ ~validation_results[1].consistency.er_ur_consistent
    /\ validation_results[1].outliers["LFPR"].count > 0

ReportCall == runs'.report = runs.report + 1

\* C7: a get_validation_report call runs validate_all once when no result is
\* cached and not at all when one is; it leaves a cached result as it is,
\* returns the rendering of the cached result, and returns the same text as
\* the report call before it.
C7_ReportUsesCache ==
    [][ReportCall =>
         /\ runs'.validate_all = runs.validate_all + (IF validation_results = None THEN 1 ELSE 0)
         /\ (validation_results # None => validation_results' = validation_results)
         /\ validation_results' # None
         /\ report' = Some(Render(validation_results'[1]))
         /\ (report # None => report' = report)]_vars

\* C7 witness: two reports were made and validate_all ran once.
C7_Witness ==
    /\ runs.report = 2
    /\ runs.validate_all = 1
    /\ report # None

\* The number 4 * year + (quarter - 1) of the quarter a row is labelled with
QuarterOf(row) == QuarterIndex(parse_quarter(row.Quarter).year, parse_quarter(row.Quarter).quarter)

ConsecutiveQuarters(df) ==
    \A i \in 2..Len(df.rows) : QuarterOf(df.rows[i]) = QuarterOf(df.rows[i - 1]) + 1

QuarterLeftOut(df) ==
    \E i \in 2..Len(df.rows) : QuarterOf(df.rows[i]) > QuarterOf(df.rows[i - 1]) + 1

\* C9: gaps_found is the number of successive rows more than 135 days apart
\* and is_continuous says that it is 0; a run of consecutive quarters has no
\* gap, and a table with a quarter left out between two rows has at least one.
C9_GapsCounted ==
    Validated =>
        LET tc == validation_results[1].temporal_continuity
        IN /\ tc.gaps_found = Cardinality({i \in 2..Len(vdata[1].rows) : DaysApart(vdata[1], i) > 135})
           /\ tc.is_continuous <=> (tc.gaps_found = 0)
           /\ ConsecutiveQuarters(vdata[1]) => (tc.gaps_found = 0 /\ tc.is_continuous)
           /\ QuarterLeftOut(vdata[1]) => (tc.gaps_found >= 1 /\ ~tc.is_continuous)

\* C9 witness: a validated run of quarters over the turn of the year into a
\* leap year, with one interior quarter left out and one gap found.
C9_Witness ==
    /\ Validated
    /\ Len(vdata[1].rows) >= 3
    /\ vdata[1].rows[1].Date.year = 2015
    /\ QuarterLeftOut(vdata[1])
    /\ validation_results[1].temporal_continuity.gaps_found = 1

PreprocessorInit == ParserIdle /\ LoaderIdle /\ ValidatorIdle /\ PreprocessorOn(SeriesDatasets)

SpecPreprocessor == PreprocessorInit /\ [][PreprocessorNext]_vars

(***************************************************************************)
(* Claims about the DataPreprocessor.                                      *)
(***************************************************************************)
Result == heap[out[1].ref]

Prepared_for_modeling == out # None /\ out[1].op = "prepare_for_modeling"

TemporalColumns == {"Year", "QuarterNum", "Month", "Quarter_sin", "Quarter_cos"}

LagColumnsOf(target) == {target \o "_lag_1", target \o "_lag_2", target \o "_lag_4"}

MovingAverageColumnsOf(target) == {target \o "_ma2", target \o "_ma4"}

RateOfChangeColumnsOf(target) == {target \o "_change1", target \o "_change4"}

RequestedColumns(args) ==
    (IF args.include_temporal THEN TemporalColumns ELSE {})
    \cup (IF args.include_lags THEN LagColumnsOf(args.target_indicator) ELSE {})
    \cup (IF args.include_ma THEN MovingAverageColumnsOf(args.target_indicator) ELSE {})
    \cup RateOfChangeColumnsOf(args.target_indicator)

\* C1: the table prepare_for_modeling returns holds the columns of every
\* requested feature group together (temporal, lag, moving-average) and always
\* the two rate-of-change columns of the target.
C1_AllRequestedFeatureColumns ==
    Prepared_for_modeling => RequestedColumns(out[1].args) \subseteq Range(Result.columns)

\* What the code does return: the dataset's own columns and the two
\* rate-of-change columns, whatever was requested.
PrepareKeepsOnlyRateOfChange ==
    Prepared_for_modeling =>
        Range(Result.columns) =
            Range(heap.self.columns) \cup RateOfChangeColumnsOf(out[1].args.target_indicator)

\* C10: after any sequence of calls the stored copy and the dataset given to
\* the constructor have the columns and values they had at construction, and
\* every call returns a table that is neither of the two.
C10_StoredCopyUntouched ==
    /\ heap.self = constructed[1]
    /\ heap.caller = constructed[1]
    /\ out # None => out[1].ref \notin {"self", "caller"}

\* A call has returned a table with rows and with columns the stored copy lacks.
C10_Witness ==
    /\ out # None
    /\ Result.rows # <<>>
    /\ Range(Result.columns) \ Range(heap.self.columns) # {}
    /\ Range(heap.self.columns) \subseteq Range(Result.columns)

DefaultFlags ==
    /\ Prepared_for_modeling
    /\ out[1].args.include_lags
    /\ out[1].args.include_ma
    /\ out[1].args.include_temporal

\* A row of a derived table cut down to the columns of the stored dataset
OfStored(row) == [c \in Range(heap.self.columns) |-> row[c]]

NoUndefinedValue(frame) ==
    \A i \in DOMAIN frame.rows : \A c \in DOMAIN frame.rows[i] : ~IsMissing(c, frame.rows[i][c])

\* The rows of the stored dataset at the positions ts, in that order
RECURSIVE StoredRowsAt(_, _)
StoredRowsAt(ts, t) ==
    IF t > Len(heap.self.rows) THEN <<>>
    ELSE (IF t \in ts THEN <<heap.self.rows[t]>> ELSE <<>>) \o StoredRowsAt(ts, t + 1)

TargetAt(t) == heap.self.rows[t][out[1].args.target_indicator]

IsZero(cell) == IsNum(cell) /\ cell.n = 0

\* C11 as claimed: on a dataset of n >= 4 rows without missing values,
\* prepare_for_modeling with its default flags returns exactly n - 4 rows, the
\* input rows after the first 4, none of them holding an undefined value.
C11_RowsAfterWarmUp ==
    (DefaultFlags /\ Len(heap.self.rows) >= 4) =>
        /\ Len(Result.rows) = Len(heap.self.rows) - 4
        /\ \A i \in DOMAIN Result.rows : OfStored(Result.rows[i]) = heap.self.rows[i + 4]
        /\ NoUndefinedValue(Result)

\* What the code returns: the input rows after the first 4 except those whose
\* target value and its value 1 or 4 rows earlier are both zero (0/0 is
\* missing and the row is dropped); a row whose earlier value alone is zero is
\* kept, with an infinite rate of change.
PrepareDropsMissingChanges ==
    Prepared_for_modeling =>
        /\ [i \in DOMAIN Result.rows |-> OfStored(Result.rows[i])]
             = StoredRowsAt({t \in 5..Len(heap.self.rows) :
                               ~(IsZero(TargetAt(t)) /\ (IsZero(TargetAt(t - 1)) \/ IsZero(TargetAt(t - 4))))}, 1)
        /\ NoUndefinedValue(Result)

\* On a dataset whose target values are all non-zero the count is n - 4.
PrepareOnNonZeroTarget ==
    (DefaultFlags /\ Len(heap.self.rows) >= 4 /\ \A t \in DOMAIN heap.self.rows : ~IsZero(TargetAt(t))) =>
        /\ Len(Result.rows) = Len(heap.self.rows) - 4
        /\ \A i \in DOMAIN Result.rows : OfStored(Result.rows[i]) = heap.self.rows[i + 4]

RateOfChangeCall == out # None /\ out[1].op = "add_rate_of_change"

ChangeColumn(indicator, p) == indicator \o "_change" \o ToString(p)

\* The cell of the rate-of-change column of indicator and period p at row t
ChangeAt(indicator, p, t) == Result.rows[t][ChangeColumn(indicator, p)]

StoredAt(indicator, t) == heap.self.rows[t][indicator]

\* ((value[t] - value[t-p]) / value[t-p]) x 100
ChangeFormula(indicator, p, t) ==
    FMul(FDiv(FSub(StoredAt(indicator, t), StoredAt(indicator, t - p)), StoredAt(indicator, t - p)), Num(100))

ChangeCells ==
    {<<indicator, p, t>> \in Range(out[1].args[1]) \X Range(out[1].args[2]) \X DOMAIN heap.self.rows : TRUE}

\* C13 as claimed: a rate-of-change column holds the formula's value at each
\* row t > p whose earlier value is non-zero and is missing at the first p rows
\* and at every row whose earlier value is zero; it never holds an infinite value.
C13_ZeroEarlierValueIsMissing ==
    RateOfChangeCall =>
        \A c \in ChangeCells :
            IF c[3] <= c[2] \/ IsZero(StoredAt(c[1], c[3] - c[2]))
            THEN IsNaN(ChangeAt(c[1], c[2], c[3]))
            ELSE ChangeAt(c[1], c[2], c[3]) = ChangeFormula(c[1], c[2], c[3])

\* What the code computes: the formula's value wherever the earlier value is
\* non-zero; on a zero earlier value an infinity of the sign of value[t], or a
\* missing value when value[t] is zero too (IEEE division, no error raised).
RateOfChangeDividesByZero ==
    RateOfChangeCall =>
        \A c \in ChangeCells :
            ChangeAt(c[1], c[2], c[3]) =
                IF c[3] <= c[2] THEN NaN
                ELSE IF ~IsZero(StoredAt(c[1], c[3] - c[2])) THEN ChangeFormula(c[1], c[2], c[3])
                ELSE IF IsZero(StoredAt(c[1], c[3])) THEN NaN
                ELSE IF StoredAt(c[1], c[3]).n > 0 THEN PosInf ELSE NegInf

\* Nor is the column what helpers.calculate_change gives on a zero earlier value.
RateOfChangeIsNotCalculateChange ==
    RateOfChangeCall =>
        \A c \in ChangeCells :
            (c[3] > c[2] /\ IsZero(StoredAt(c[1], c[3] - c[2]))) =>
                ChangeAt(c[1], c[2], c[3]) # calculate_change(StoredAt(c[1], c[3]), StoredAt(c[1], c[3] - c[2]))

ConsistencyInit == ParserIdle /\ LoaderIdle /\ ValidatorOn(SumDatasets) /\ PreprocessorIdle

SpecConsistency == ConsistencyInit /\ [][ValidatorNext]_vars

(***************************************************************************)
(* Claims about check_consistency, checked under SpecConsistency (datasets *)
(* that vary in ER + UR).                                                  *)
(***************************************************************************)
\* |ER + UR - 100| of a row as the fraction num / den, ER and UR being numbers
OffBy(row) ==
    [num |-> Abs(row.ER.n * row.UR.d + row.UR.n * row.ER.d - 100 * row.ER.d * row.UR.d),
     den |-> row.ER.d * row.UR.d]

\* The rows whose |ER + UR - 100| is greater than 2.0
OffByMoreThanTwo(df) ==
    {i \in DOMAIN df.rows :
        /\ IsNum(df.rows[i].ER)
        /\ IsNum(df.rows[i].UR)
        /\ OffBy(df.rows[i]).num > 2 * OffBy(df.rows[i]).den}

OffByExactlyTwo(df) ==
    {i \in DOMAIN df.rows :
        /\ IsNum(df.rows[i].ER)
        /\ IsNum(df.rows[i].UR)
        /\ OffBy(df.rows[i]).num = 2 * OffBy(df.rows[i]).den}

\* The Quarter labels of the rows in flagged, in row order
LabelsOf(df, flagged) ==
    [k \in 1..Cardinality(flagged) |->
        df.rows[CHOOSE i \in flagged : Cardinality({j \in flagged : j <= i}) = k].Quarter]

\* C12: check_consistency flags a row exactly when |ER + UR - 100| > 2.0, a
\* difference of exactly 2.0 being consistent; inconsistent_count is the number
\* of flagged rows, inconsistent_quarters their Quarter labels, and
\* er_ur_consistent is true exactly when no row is flagged.
C12_ConsistencyTolerance ==
    Validated =>
        /\ validation_results[1].consistency.inconsistent_count = Cardinality(OffByMoreThanTwo(vdata[1]))
        /\ validation_results[1].consistency.inconsistent_quarters = LabelsOf(vdata[1], OffByMoreThanTwo(vdata[1]))
        /\ validation_results[1].consistency.er_ur_consistent <=> (OffByMoreThanTwo(vdata[1]) = {})

\* C12 witness: a validated dataset with a row off by exactly 2.0 that is not
\* flagged and a later row off by more that is the one reported.
C12_Witness ==
    /\ Validated
    /\ Len(vdata[1].rows) = 3
    /\ 1 \in OffByExactlyTwo(vdata[1])
    /\ OffByMoreThanTwo(vdata[1]) = {3}
    /\ validation_results[1].consistency.inconsistent_count = 1
    /\ validation_results[1].consistency.inconsistent_quarters = <<vdata[1].rows[3].Quarter>>
    /\ ~validation_results[1].consistency.er_ur_consistent

====
